---- MODULE Spec2Model ----
(***************************************************************************)
(* Model of src/APRS_Beacon.py: the APRS-IS beacon sender.                 *)
(*                                                                         *)
(* Thread 0 is the Tk main (GUI) thread: it runs the button and timer      *)
(* callbacks send_once, start_beacon and on_close.  Threads 1..MaxThreads  *)
(* are the threading.Thread objects start_beacon can create; each runs     *)
(* beacon_loop.  APRSSender.send_beacon is modelled statement by           *)
(* statement, one action per blocking call or shared-state access, for     *)
(* whichever thread is executing it.                                       *)
(*                                                                         *)
(* Statements that touch nothing another thread reads (the label and log   *)
(* box updates, the sleeps) are folded into the action of a neighbouring   *)
(* statement.  Tk calls return normally while the root window exists; once *)
(* on_close has destroyed it, mainloop returns, the script ends and the    *)
(* daemon thread ends with the process, so nothing runs after `exited`.    *)
(* `self.packet_count += 1` is a load and a store with no lock around      *)
(* them, so another thread may run in between.                             *)
(*                                                                         *)
(* Spec is the program as it runs; SpecFair adds fair thread scheduling;   *)
(* SpecCall is one APRSSender whose send_beacon a single caller invokes    *)
(* repeatedly with retries drawn from 0 .. MaxRetries.  SpecCfg is the     *)
(* scheduler with the configuration window; SpecSink is SpecCall with a    *)
(* log function that may raise; SpecArgs is SpecCall with negative retries *)
(* allowed.  SpecCoord, SpecPacket and SpecWait apply the module-level     *)
(* functions (decimal_to_aprs_lat / _lon, build_packet, wait_for_logresp)  *)
(* to arguments drawn from bounded sets; text is a sequence of characters. *)
(***************************************************************************)
EXTENDS Integers, Sequences, FiniteSets, TLC

\* ---------------------------------------------------------------- bounds
MaxThreads == 2   \* Thread objects start_beacon may create
MaxClicks  == 2   \* presses of the "Send Beacon" button
MaxStarts  == 2   \* calls of start_beacon
MaxCount   == 2   \* the server acknowledges logins only while packet_count < MaxCount
MaxRecv    == 1   \* chunks without "logresp" one wait_for_logresp call may read
MaxRetries == 2   \* largest retries argument a direct caller passes (SpecCall)
MaxEdits   == 1   \* configuration windows the user opens (SpecCfg)
MaxLen     == 3   \* characters typed into the comment box (SpecPacket)
MaxPieces  == 2   \* pieces (token, newline, filler) a server stream is made of
MaxCuts    == 1   \* recv boundaries inside the stream (SpecWait)
GridPerDeg == 50000   \* coordinates are whole multiples of 1/GridPerDeg degree
FracSteps  == 8   \* evenly spaced fractions of a degree tried per whole degree
MaxLatHundredths == 8999    \* latitudes  up to 89.99 degrees either side
MaxLonHundredths == 17999   \* longitudes up to 179.99 degrees either side

\* ------------------------------------------------------ program constants
DefaultRetries == 2   \* def send_beacon(self, cfg, retries=2, retry_delay=3)

VARIABLES
    pc,            \* pc[t]: the statement thread t is at
    attempt,       \* attempt[t]: send_beacon's local `attempt`
    retries,       \* retries[t]: send_beacon's argument `retries`
    sock,          \* sock[t]: send_beacon's local `sock`: "None", "open", "closed"
    sockAtt,       \* sockAtt[t]: value of `attempt` when sock[t] was created
    openSocks,     \* openSocks[t]: sockets created by t's invocation and not closed
    sess,          \* sess[t]: what has happened on the current attempt's connection
    err,           \* err[t]: the exception being handled / raised by send_beacon
    recvs,         \* recvs[t]: chunks read so far by the current wait_for_logresp
    tmp,           \* tmp[t]: the value loaded by `self.packet_count += 1`
    packet_count,  \* APRSSender.packet_count
    running,       \* APRSGUI.running
    beacon_thread, \* APRSGUI.beacon_thread: 0 is None, else a thread id
    autostart,     \* cfg["autostart"]
    exited,        \* the root window is destroyed: mainloop returned, process gone
    clicks,        \* button presses so far
    starts,        \* start_beacon calls so far
    conns,         \* conns[t]: create_connection calls made by t's invocation
    silent,        \* silent[t]: every attempt of t's invocation so far got as far
                   \*   as wait_for_logresp and ended there without a logresp line
    count0,        \* count0[t]: packet_count as the direct caller saw it at the call
    successes,     \* send_beacon calls that have returned normally
    cfg,           \* APRSGUI.cfg: the dict object it refers to (an object id)
    heap,          \* heap[d]: the contents of dict object d (0: not allocated)
    win,           \* the open ConfigWindow's own dict (ConfigWindow.cfg), 0: none
    interval,      \* interval[d]: cfg["interval"] as dict object d holds it
    cfgArg,        \* cfgArg[t]: send_beacon's argument `cfg`, a dict object
    cfg0,          \* cfg0[t]: the contents of that dict when send_beacon began
    cfgSeen,       \* cfgSeen[t]: the contents t's invocation last read from it
    logged,        \* logged[t]: "Sent" / "Send failed" lines t's invocation logged
    beacons,       \* beacons[t]: beacon packets t's invocation has written
    input,         \* the argument of the function under study (function specs)
    output         \* its result, "none" before it has been applied

vars == << pc, attempt, retries, sock, sockAtt, openSocks, sess, err, recvs, tmp,
           packet_count, running, beacon_thread, autostart, exited, clicks, starts,
           conns, silent, count0, successes, cfg, heap, win, interval, cfgArg, cfg0,
           cfgSeen, logged, beacons, input, output >>

Threads == 0 .. MaxThreads
GuiThread == 0
BeaconThreads == 1 .. MaxThreads

guiVars == << running, beacon_thread, autostart, exited, clicks, starts >>

\* The configuration objects; the per-invocation records; the function specs.
cfgVars == << cfg, heap, win, interval >>
callVars == << cfgArg, cfg0, cfgSeen, logged, beacons >>
fnVars == << input, output >>

\* Everything but the function specs' argument and result.
progVars == << pc, attempt, retries, sock, sockAtt, openSocks, sess, err, recvs,
               tmp, packet_count, guiVars, conns, silent, count0, successes,
               cfgVars, callVars >>

\* The dict objects there can be: load_config's, and one copy per ConfigWindow.
Dicts == 1 .. (1 + MaxEdits)

\* The values of cfg["interval"] told apart: a negative one and a positive one
\* (load_config and ConfigWindow.save take any int).
Intervals == {-1, 1}

\* A line written through self.log by send_beacon: its kind and the attempt
\* number it carries ("APRS-IS: ..." lines are not recorded).
LogLine(k, a) == [kind |-> k, attempt |-> a]

\* A thread object that has been started and whose run() has not ended.
Alive(t) == pc[t] \notin {"unborn", "done", "died"}

\* Thread t is inside APRSSender.send_beacon (its retries and delays included).
SendPCs == {"sb_while", "connect", "login", "wait", "settle", "send", "inc_read",
            "inc_write", "except", "retry_sleep", "fin_return", "fin_retry",
            "fin_raise"}
InSendBeacon(t) == pc[t] \in SendPCs

\* The statements of the try body that run on a connected socket.
BodyPCs == {"login", "wait", "settle", "send", "inc_read", "inc_write"}

\* ------------------------------------------------- conditions of the code
\* `while attempt <= retries:`
LoopContinues(a, r) == a <= r

\* A slip in the comparison: the last retry is given up one attempt early.
RetriesExhaustedEarly(a, r) == a >= r

\* `if attempt > retries: raise`
RetriesExhausted(a, r) == a > r

\* The check of wait_for_logresp's result left out.
NoLogrespUnchecked(resp) == FALSE

\* `if not logresp:` on wait_for_logresp's result (None, or the stripped line)
NoLogresp(resp) == resp = "None"

\* The finally clause closing nothing.
SockNeverClosed(s) == FALSE

\* `if sock:` in the finally clause
SockTruthy(s) == s # "None"

\* `while True:`: the flag is never looked at.
LoopRunsForever(r) == TRUE

\* `while self.running:`
LoopRuns(r) == r

\* start_beacon without its guard.
NeverAlreadyStarted == FALSE

\* `if self.beacon_thread and self.beacon_thread.is_alive(): return`
AlreadyStarted == beacon_thread # 0 /\ Alive(beacon_thread)

\* The counter bumped by two.
IncrementedTwice(v) == v + 2

\* `self.packet_count += 1`: the value stored, from the value loaded
Incremented(v) == v + 1

\* What one sock.recv(1024) inside wait_for_logresp can bring:
\*   "ack"     a chunk with a line containing "logresp": the line is returned
\*   "other"   a chunk without such a line: the loop goes on
\*   "eof"     b"": break, return None
\*   "timeout" socket.timeout, raised by recv after settimeout(timeout); any
\*             other OSError of recv leaves wait_for_logresp the same way
RecvOutcomes == {"ack", "other", "eof", "timeout"}

\* wait_for_logresp's return value after a chunk, "more" when the loop goes on.
WaitResult(o) == CASE o = "ack" -> "line"
                   [] o = "eof" -> "None"
                   [] OTHER     -> "more"

\* The failures of an attempt that are "no logresp within the wait window".
WaitFailures == {"Timeout", "NoLogresp"}

\* ------------------------------------------------------------ send_beacon
\* Entry of send_beacon(cfg, retries=r): `attempt = 0`.  c0 is what the caller
\* noted of packet_count before the call (0 when it notes nothing).
BeginSend(t, r, c0) ==
    /\ pc' = [pc EXCEPT ![t] = "sb_while"]
    /\ attempt' = [attempt EXCEPT ![t] = 0]
    /\ retries' = [retries EXCEPT ![t] = r]
    /\ sock' = [sock EXCEPT ![t] = "None"]
    /\ sockAtt' = [sockAtt EXCEPT ![t] = 0]
    /\ openSocks' = [openSocks EXCEPT ![t] = 0]
    /\ sess' = [sess EXCEPT ![t] = << >>]
    /\ err' = [err EXCEPT ![t] = "none"]
    /\ recvs' = [recvs EXCEPT ![t] = 0]
    /\ tmp' = [tmp EXCEPT ![t] = 0]
    /\ conns' = [conns EXCEPT ![t] = 0]
    /\ silent' = [silent EXCEPT ![t] = TRUE]
    /\ count0' = [count0 EXCEPT ![t] = c0]
    /\ cfgArg' = [cfgArg EXCEPT ![t] = cfg]
    /\ cfg0' = [cfg0 EXCEPT ![t] = heap[cfg]]
    /\ cfgSeen' = [cfgSeen EXCEPT ![t] = heap[cfg]]
    /\ logged' = [logged EXCEPT ![t] = << >>]
    /\ beacons' = [beacons EXCEPT ![t] = 0]
    /\ UNCHANGED << packet_count, successes >>

\* The caller has taken send_beacon's outcome: its frame is gone.
EndSend(t, next) ==
    /\ pc' = [pc EXCEPT ![t] = next]
    /\ attempt' = [attempt EXCEPT ![t] = 0]
    /\ retries' = [retries EXCEPT ![t] = 0]
    /\ sock' = [sock EXCEPT ![t] = "None"]
    /\ sockAtt' = [sockAtt EXCEPT ![t] = 0]
    /\ openSocks' = [openSocks EXCEPT ![t] = 0]
    /\ sess' = [sess EXCEPT ![t] = << >>]
    /\ err' = [err EXCEPT ![t] = "none"]
    /\ recvs' = [recvs EXCEPT ![t] = 0]
    /\ tmp' = [tmp EXCEPT ![t] = 0]
    /\ conns' = [conns EXCEPT ![t] = 0]
    /\ silent' = [silent EXCEPT ![t] = TRUE]
    /\ count0' = [count0 EXCEPT ![t] = 0]
    /\ cfgArg' = [cfgArg EXCEPT ![t] = 0]
    /\ cfg0' = [cfg0 EXCEPT ![t] = 0]
    /\ cfgSeen' = [cfgSeen EXCEPT ![t] = 0]
    /\ logged' = [logged EXCEPT ![t] = << >>]
    /\ beacons' = [beacons EXCEPT ![t] = 0]
    /\ UNCHANGED << packet_count, successes >>

\* An exception of kind k leaves the try body: control goes to `except`.
Raise(t, k) ==
    /\ pc' = [pc EXCEPT ![t] = "except"]
    /\ err' = [err EXCEPT ![t] = k]

\* `while attempt <= retries:` then `sock = None`; falling out of the loop
\* returns None.
SBWhile(t) ==
    /\ ~exited /\ pc[t] = "sb_while"
    /\ IF LoopContinues(attempt[t], retries[t])
         THEN /\ pc' = [pc EXCEPT ![t] = "connect"]
              /\ sock' = [sock EXCEPT ![t] = "None"]
              /\ sess' = [sess EXCEPT ![t] = << >>]
              /\ UNCHANGED successes
         ELSE /\ pc' = [pc EXCEPT ![t] = "sb_returned"]
              /\ successes' = successes + 1
              /\ UNCHANGED << sock, sess >>
    /\ UNCHANGED << attempt, retries, sockAtt, openSocks, err, recvs, tmp,
                    packet_count, guiVars, conns, silent, count0 >>
    /\ UNCHANGED << cfgVars, callVars, fnVars >>

\* `sock = socket.create_connection((server, port), timeout=10)`
Connect(t) ==
    /\ ~exited /\ pc[t] = "connect"
    /\ conns' = [conns EXCEPT ![t] = @ + 1]
    /\ \/ /\ pc' = [pc EXCEPT ![t] = "login"]
          /\ sock' = [sock EXCEPT ![t] = "open"]
          /\ sockAtt' = [sockAtt EXCEPT ![t] = attempt[t]]
          /\ openSocks' = [openSocks EXCEPT ![t] = @ + 1]
          /\ sess' = [sess EXCEPT ![t] = Append(@, "connect")]
          /\ UNCHANGED err
       \/ /\ Raise(t, "ConnectFailed")
          /\ UNCHANGED << sock, sockAtt, openSocks, sess >>
    /\ UNCHANGED << attempt, retries, recvs, tmp, packet_count, guiVars, silent,
                    count0, successes >>
    /\ cfgSeen' = [cfgSeen EXCEPT ![t] = heap[cfgArg[t]]]
    /\ UNCHANGED << cfgVars, cfgArg, cfg0, logged, beacons, fnVars >>

\* `sock.sendall(login.encode())`
Login(t) ==
    /\ ~exited /\ pc[t] = "login"
    /\ \/ /\ pc' = [pc EXCEPT ![t] = "wait"]
          /\ sess' = [sess EXCEPT ![t] = Append(@, "login")]
          /\ UNCHANGED err
       \/ /\ Raise(t, "LoginFailed")
          /\ UNCHANGED sess
    /\ UNCHANGED << attempt, retries, sock, sockAtt, openSocks, recvs, tmp,
                    packet_count, guiVars, conns, silent, count0, successes >>
    /\ cfgSeen' = [cfgSeen EXCEPT ![t] = heap[cfgArg[t]]]
    /\ UNCHANGED << cfgVars, cfgArg, cfg0, logged, beacons, fnVars >>

\* `logresp = wait_for_logresp(sock, timeout=5)`: one sock.recv of its loop, and,
\* when the function returns, `if not logresp: raise RuntimeError(...)`.
Recv(t) ==
    /\ ~exited /\ pc[t] = "wait"
    /\ \E o \in RecvOutcomes :
         /\ o = "ack" => packet_count < MaxCount
         /\ o = "other" => recvs[t] < MaxRecv
         /\ IF o = "timeout"
              THEN /\ Raise(t, "Timeout")
                   /\ recvs' = [recvs EXCEPT ![t] = 0]
                   /\ UNCHANGED sess
              ELSE IF WaitResult(o) = "more"
                THEN /\ recvs' = [recvs EXCEPT ![t] = @ + 1]
                     /\ UNCHANGED << pc, err, sess >>
                ELSE IF NoLogresp(WaitResult(o))
                  THEN /\ Raise(t, "NoLogresp")
                       /\ recvs' = [recvs EXCEPT ![t] = 0]
                       /\ UNCHANGED sess
                  ELSE /\ pc' = [pc EXCEPT ![t] = "settle"]
                       /\ sess' = [sess EXCEPT ![t] =
                                     IF o = "ack" THEN Append(@, "ack") ELSE @]
                       /\ recvs' = [recvs EXCEPT ![t] = 0]
                       /\ UNCHANGED err
    /\ UNCHANGED << attempt, retries, sock, sockAtt, openSocks, tmp, packet_count,
                    guiVars, conns, silent, count0, successes >>
    /\ UNCHANGED << cfgVars, callVars, fnVars >>

\* wait_for_logresp: `while time.time() - start < timeout` turns false after a
\* chunk without "logresp": return None, then `raise RuntimeError("No logresp...")`.
WindowElapsed(t) ==
    /\ ~exited /\ pc[t] = "wait" /\ recvs[t] > 0
    /\ recvs' = [recvs EXCEPT ![t] = 0]
    /\ IF NoLogresp("None")
         THEN Raise(t, "NoLogresp")
         ELSE /\ pc' = [pc EXCEPT ![t] = "settle"]
              /\ UNCHANGED err
    /\ UNCHANGED << attempt, retries, sock, sockAtt, openSocks, sess, tmp,
                    packet_count, guiVars, conns, silent, count0, successes >>
    /\ UNCHANGED << cfgVars, callVars, fnVars >>

\* `self.log(f"APRS-IS: {logresp}")`; `time.sleep(2)`
Settle(t) ==
    /\ ~exited /\ pc[t] = "settle"
    /\ pc' = [pc EXCEPT ![t] = "send"]
    /\ sess' = [sess EXCEPT ![t] = Append(@, "settle")]
    /\ UNCHANGED << attempt, retries, sock, sockAtt, openSocks, err, recvs, tmp,
                    packet_count, guiVars, conns, silent, count0, successes >>
    /\ UNCHANGED << cfgVars, callVars, fnVars >>

\* `packet = build_packet(cfg)`; `sock.sendall((packet + "\n").encode())`
SendPacket(t) ==
    /\ ~exited /\ pc[t] = "send"
    /\ \/ /\ pc' = [pc EXCEPT ![t] = "inc_read"]
          /\ sess' = [sess EXCEPT ![t] = Append(@, "beacon")]
          /\ beacons' = [beacons EXCEPT ![t] = @ + 1]
          /\ UNCHANGED err
       \/ /\ Raise(t, "TransmitFailed")
          /\ UNCHANGED << sess, beacons >>
    /\ UNCHANGED << attempt, retries, sock, sockAtt, openSocks, recvs, tmp,
                    packet_count, guiVars, conns, silent, count0, successes >>
    /\ cfgSeen' = [cfgSeen EXCEPT ![t] = heap[cfgArg[t]]]
    /\ UNCHANGED << cfgVars, cfgArg, cfg0, logged, fnVars >>

\* `time.sleep(0.5)`; `self.packet_count += 1`, first half: load the attribute
IncRead(t) ==
    /\ ~exited /\ pc[t] = "inc_read"
    /\ pc' = [pc EXCEPT ![t] = "inc_write"]
    /\ tmp' = [tmp EXCEPT ![t] = packet_count]
    /\ UNCHANGED << attempt, retries, sock, sockAtt, openSocks, sess, err, recvs,
                    packet_count, guiVars, conns, silent, count0, successes >>
    /\ UNCHANGED << cfgVars, callVars, fnVars >>

\* `self.packet_count += 1`, second half: add 1 and store the attribute; then
\* `self.log(f"Sent: {packet}")`; `return`
IncWrite(t) ==
    /\ ~exited /\ pc[t] = "inc_write"
    /\ pc' = [pc EXCEPT ![t] = "fin_return"]
    /\ packet_count' = Incremented(tmp[t])
    /\ tmp' = [tmp EXCEPT ![t] = 0]
    /\ UNCHANGED << attempt, retries, sock, sockAtt, openSocks, sess, err, recvs,
                    guiVars, conns, silent, count0, successes >>
    /\ logged' = [logged EXCEPT ![t] = Append(@, LogLine("Sent", attempt[t]))]
    /\ UNCHANGED << cfgVars, cfgArg, cfg0, cfgSeen, beacons, fnVars >>

\* `except Exception as e:` `attempt += 1`; `if attempt > retries: raise`;
\* `self.log(f"Send failed ({attempt}/{retries}): {e}")`
Except(t) ==
    /\ ~exited /\ pc[t] = "except"
    /\ attempt' = [attempt EXCEPT ![t] = @ + 1]
    /\ silent' = [silent EXCEPT ![t] = @ /\ err[t] \in WaitFailures]
    /\ pc' = [pc EXCEPT ![t] = IF RetriesExhausted(attempt[t] + 1, retries[t])
                                 THEN "fin_raise" ELSE "retry_sleep"]
    /\ UNCHANGED << retries, sock, sockAtt, openSocks, sess, err, recvs, tmp,
                    packet_count, guiVars, conns, count0, successes >>
    /\ logged' = [logged EXCEPT
                   ![t] = IF RetriesExhausted(attempt[t] + 1, retries[t])
                            THEN @
                            ELSE Append(@, LogLine("Send failed", attempt[t] + 1))]
    /\ UNCHANGED << cfgVars, cfgArg, cfg0, cfgSeen, beacons, fnVars >>

\* `time.sleep(retry_delay)`, the last statement of the except clause (which
\* unbinds `e`)
RetrySleep(t) ==
    /\ ~exited /\ pc[t] = "retry_sleep"
    /\ pc' = [pc EXCEPT ![t] = "fin_retry"]
    /\ err' = [err EXCEPT ![t] = "none"]
    /\ UNCHANGED << attempt, retries, sock, sockAtt, openSocks, sess, recvs, tmp,
                    packet_count, guiVars, conns, silent, count0, successes >>
    /\ UNCHANGED << cfgVars, callVars, fnVars >>

\* `finally: if sock: sock.close()`, run on the way out of the try statement:
\* by `return`, by `raise`, or at the end of the except clause (the loop goes on).
Finally(t) ==
    /\ ~exited /\ pc[t] \in {"fin_return", "fin_retry", "fin_raise"}
    /\ IF SockTruthy(sock[t])
         THEN /\ sock' = [sock EXCEPT ![t] = "closed"]
              /\ openSocks' = [openSocks EXCEPT
                                 ![t] = IF sock[t] = "open" THEN @ - 1 ELSE @]
              /\ sess' = [sess EXCEPT ![t] = Append(@, "close")]
         ELSE UNCHANGED << sock, openSocks, sess >>
    /\ pc' = [pc EXCEPT ![t] = CASE pc[t] = "fin_return" -> "sb_returned"
                                 [] pc[t] = "fin_retry"  -> "sb_while"
                                 [] pc[t] = "fin_raise"  -> "sb_raised"]
    /\ successes' = IF pc[t] = "fin_return" THEN successes + 1 ELSE successes
    /\ UNCHANGED << attempt, retries, sockAtt, err, recvs, tmp, packet_count,
                    guiVars, conns, silent, count0 >>
    /\ UNCHANGED << cfgVars, callVars, fnVars >>

\* One step of send_beacon by thread t.
SendBeaconStep(t) ==
    \/ SBWhile(t) \/ Connect(t) \/ Login(t) \/ Recv(t) \/ WindowElapsed(t)
    \/ Settle(t) \/ SendPacket(t) \/ IncRead(t) \/ IncWrite(t) \/ Except(t)
    \/ RetrySleep(t) \/ Finally(t)

\* ------------------------------------------------------------------- GUI
\* A messagebox.showerror dialog is on screen (it is modal: it grabs input).
DialogOpen == \E t \in Threads : pc[t] = "showerror"

\* The user presses "Send Beacon": send_once runs on the GUI thread, sets the
\* status label and calls self.sender.send_beacon(self.cfg).
Click ==
    /\ ~exited /\ pc[GuiThread] = "idle" /\ ~DialogOpen
    /\ clicks < MaxClicks
    /\ clicks' = clicks + 1
    /\ BeginSend(GuiThread, DefaultRetries, 0)
    /\ UNCHANGED << running, beacon_thread, autostart, exited, starts >>
    /\ UNCHANGED << cfgVars, fnVars >>

\* send_once after send_beacon returned: counter label, status "Idle".  On the
\* GUI thread the callback ends; in beacon_loop the interval sleep follows.
SendOnceOk(t) ==
    /\ ~exited /\ pc[t] = "sb_returned"
    /\ EndSend(t, IF t = GuiThread THEN "idle" ELSE "interval_sleep")
    /\ UNCHANGED guiVars
    /\ UNCHANGED << cfgVars, fnVars >>

\* send_once's `except Exception as e:`: status "Error", then
\* messagebox.showerror, which returns when the user dismisses the dialog.
SendOnceErr(t) ==
    /\ ~exited /\ pc[t] = "sb_raised"
    /\ EndSend(t, "showerror")
    /\ UNCHANGED guiVars
    /\ UNCHANGED << cfgVars, fnVars >>

\* The user dismisses the error dialog: showerror returns, send_once ends.
Dismiss(t) ==
    /\ ~exited /\ pc[t] = "showerror"
    /\ pc' = [pc EXCEPT ![t] = IF t = GuiThread THEN "idle" ELSE "interval_sleep"]
    /\ UNCHANGED << attempt, retries, sock, sockAtt, openSocks, sess, err, recvs,
                    tmp, packet_count, guiVars, conns, silent, count0, successes >>
    /\ UNCHANGED << cfgVars, callVars, fnVars >>

\* start_beacon (the after(1000, ...) callback when cfg["autostart"]): return
\* if the thread is alive, else create a Thread running beacon_loop and start it.
\* The timer fires in the GUI thread's event loop: when the thread is idle, and
\* also inside its own messagebox.showerror, which runs a nested event loop.
StartBeacon ==
    /\ ~exited /\ pc[GuiThread] \in {"idle", "showerror"}
    /\ autostart /\ starts < MaxStarts
    /\ starts' = starts + 1
    /\ IF AlreadyStarted
         THEN UNCHANGED << pc, beacon_thread >>
         ELSE \E t \in BeaconThreads :
                /\ pc[t] = "unborn"
                /\ \A u \in BeaconThreads : u < t => pc[u] # "unborn"
                /\ pc' = [pc EXCEPT ![t] = "loop_top"]
                /\ beacon_thread' = t
    /\ UNCHANGED << attempt, retries, sock, sockAtt, openSocks, sess, err, recvs,
                    tmp, packet_count, running, autostart, exited, clicks, conns,
                    silent, count0, successes >>
    /\ UNCHANGED << cfgVars, callVars, fnVars >>

\* beacon_loop: `while self.running:`; a false flag ends the thread, a true
\* one takes it into send_once.
BeaconLoopTop(t) ==
    /\ ~exited /\ t \in BeaconThreads /\ pc[t] = "loop_top"
    /\ pc' = [pc EXCEPT ![t] = IF LoopRuns(running) THEN "send_once" ELSE "done"]
    /\ UNCHANGED << attempt, retries, sock, sockAtt, openSocks, sess, err, recvs,
                    tmp, packet_count, guiVars, conns, silent, count0, successes >>
    /\ UNCHANGED << cfgVars, callVars, fnVars >>

\* send_once on a loop thread: the status label is set (a Tk call made from
\* the loop thread, during which the GUI thread runs), then
\* `self.sender.send_beacon(self.cfg)` reads self.cfg and enters send_beacon.
SendOnceBegin(t) ==
    /\ ~exited /\ t \in BeaconThreads /\ pc[t] = "send_once"
    /\ BeginSend(t, DefaultRetries, 0)
    /\ UNCHANGED guiVars
    /\ UNCHANGED << cfgVars, fnVars >>

\* beacon_loop: `time.sleep(self.cfg["interval"] * 60)`.  A negative interval
\* makes time.sleep raise ValueError: beacon_loop ends by the exception and
\* the thread is finished, whatever `running` is.
IntervalSleep(t) ==
    /\ ~exited /\ t \in BeaconThreads /\ pc[t] = "interval_sleep"
    /\ pc' = [pc EXCEPT ![t] = IF interval[cfg] < 0 THEN "died" ELSE "loop_top"]
    /\ UNCHANGED << attempt, retries, sock, sockAtt, openSocks, sess, err, recvs,
                    tmp, packet_count, guiVars, conns, silent, count0, successes >>
    /\ UNCHANGED << cfgVars, callVars, fnVars >>

\* on_close, first statement: `self.running = False`
OnCloseFlag ==
    /\ ~exited /\ pc[GuiThread] = "idle"
    /\ running' = FALSE
    /\ pc' = [pc EXCEPT ![GuiThread] = "closing"]
    /\ UNCHANGED << attempt, retries, sock, sockAtt, openSocks, sess, err, recvs,
                    tmp, packet_count, beacon_thread, autostart, exited, clicks,
                    starts, conns, silent, count0, successes >>
    /\ UNCHANGED << cfgVars, callVars, fnVars >>

\* on_close, second statement: `self.destroy()`.  app.mainloop() returns, the
\* script ends and the daemon thread goes with the process.
OnCloseDestroy ==
    /\ ~exited /\ pc[GuiThread] = "closing"
    /\ exited' = TRUE
    /\ UNCHANGED << pc, attempt, retries, sock, sockAtt, openSocks, sess, err,
                    recvs, tmp, packet_count, running, beacon_thread, autostart,
                    clicks, starts, conns, silent, count0, successes >>
    /\ UNCHANGED << cfgVars, callVars, fnVars >>

\* ---------------------------------------------------- configuration window
\* ConfigWindow.__init__ keeping a reference to the caller's dict, no copy.
WindowDictShared(d, fresh) == d

\* ConfigWindow.__init__: `self.cfg = cfg.copy()`: the window's own dict, a
\* new object `fresh` holding what dict d holds
WindowDict(d, fresh) == fresh

\* open_config: `ConfigWindow(self, self.cfg, self.apply_config)`.  One window
\* at a time; a closed window's dict is not reused.
OpenConfig ==
    /\ ~exited /\ pc[GuiThread] = "idle" /\ ~DialogOpen
    /\ win = 0
    /\ \E d \in Dicts :
         /\ heap[d] = 0
         /\ \A e \in Dicts : e < d => heap[e] # 0
         /\ heap' = [heap EXCEPT ![d] = heap[cfg]]
         /\ interval' = [interval EXCEPT ![d] = interval[cfg]]
         /\ win' = WindowDict(cfg, d)
    /\ UNCHANGED << pc, attempt, retries, sock, sockAtt, openSocks, sess, err,
                    recvs, tmp, packet_count, guiVars, conns, silent, count0,
                    successes, cfg, callVars, fnVars >>

\* ConfigWindow.save with entries that parse: the entries are written into the
\* window's dict (v: what send_beacon reads of it afterwards, as before or
\* edited; i: its interval afterwards), then
\* save_config, then save_callback = apply_config: `self.cfg = new_cfg`, the
\* label and the "Config updated" log line; then `self.destroy()`.
SaveConfig ==
    /\ ~exited /\ pc[GuiThread] = "idle" /\ ~DialogOpen
    /\ win # 0
    /\ \E v \in {heap[win], heap[win] + 1} :
         heap' = [heap EXCEPT ![win] = v]
    /\ \E i \in Intervals :
         interval' = [interval EXCEPT ![win] = i]
    /\ cfg' = win
    /\ win' = 0
    /\ UNCHANGED << pc, attempt, retries, sock, sockAtt, openSocks, sess, err,
                    recvs, tmp, packet_count, guiVars, conns, silent, count0,
                    successes, callVars, fnVars >>

\* The user closes the configuration window without saving.
CancelConfig ==
    /\ ~exited /\ pc[GuiThread] = "idle" /\ ~DialogOpen
    /\ win # 0
    /\ win' = 0
    /\ UNCHANGED << pc, attempt, retries, sock, sockAtt, openSocks, sess, err,
                    recvs, tmp, packet_count, guiVars, conns, silent, count0,
                    successes, cfg, heap, interval, callVars, fnVars >>

\* One step thread t takes on its own, once it is where it is: the statements
\* of beacon_loop, send_once and send_beacon, and on_close's second statement.
\* Not among them: what only the user does (pressing a button, dismissing a
\* dialog, closing the window) and the timer callback.
ThreadStep(t) ==
    \/ BeaconLoopTop(t) \/ SendOnceBegin(t) \/ IntervalSleep(t)
    \/ SendBeaconStep(t)
    \/ SendOnceOk(t) \/ SendOnceErr(t)
    \/ (t = GuiThread /\ OnCloseDestroy)

\* --------------------------------------------------------- specifications
InitProgram ==
    /\ pc = [t \in Threads |-> IF t = GuiThread THEN "idle" ELSE "unborn"]
    /\ attempt = [t \in Threads |-> 0]
    /\ retries = [t \in Threads |-> 0]
    /\ sock = [t \in Threads |-> "None"]
    /\ sockAtt = [t \in Threads |-> 0]
    /\ openSocks = [t \in Threads |-> 0]
    /\ sess = [t \in Threads |-> << >>]
    /\ err = [t \in Threads |-> "none"]
    /\ recvs = [t \in Threads |-> 0]
    /\ tmp = [t \in Threads |-> 0]
    /\ packet_count = 0
    /\ running = TRUE
    /\ beacon_thread = 0
    /\ autostart \in BOOLEAN
    /\ exited = FALSE
    /\ clicks = 0
    /\ starts = 0
    /\ conns = [t \in Threads |-> 0]
    /\ silent = [t \in Threads |-> TRUE]
    /\ count0 = [t \in Threads |-> 0]
    /\ successes = 0
    /\ cfg = 1
    /\ heap = [d \in Dicts |-> IF d = 1 THEN 1 ELSE 0]
    /\ win = 0
    /\ interval \in [Dicts -> Intervals]
    /\ \A d \in Dicts : d # 1 => interval[d] = 1
    /\ cfgArg = [t \in Threads |-> 0]
    /\ cfg0 = [t \in Threads |-> 0]
    /\ cfgSeen = [t \in Threads |-> 0]
    /\ logged = [t \in Threads |-> << >>]
    /\ beacons = [t \in Threads |-> 0]

\* The state after construction: APRSGUI.__init__ has returned.
Init == InitProgram /\ input = "none" /\ output = "none"

\* The program: the GUI thread's callbacks and the beacon_loop threads.
Next ==
    \/ Click
    \/ StartBeacon
    \/ OnCloseFlag
    \/ OnCloseDestroy
    \/ \E t \in Threads : SendBeaconStep(t)
    \/ \E t \in Threads : SendOnceOk(t)
    \/ \E t \in Threads : SendOnceErr(t)
    \/ \E t \in Threads : Dismiss(t)
    \/ \E t \in BeaconThreads : BeaconLoopTop(t)
    \/ \E t \in BeaconThreads : SendOnceBegin(t)
    \/ \E t \in BeaconThreads : IntervalSleep(t)

Spec == Init /\ [][Next]_vars

\* The same program with its threads scheduled fairly: a thread that can take
\* a step of its own eventually does.  Nothing obliges the user to click, to
\* dismiss a dialog or to close the window.
SpecFair == Spec /\ \A t \in Threads : WF_vars(ThreadStep(t))

\* One sender driven by a direct caller: send_beacon(cfg, retries=r) called
\* again and again on the same APRSSender, each call after the last has ended.
Call ==
    /\ pc[GuiThread] = "idle"
    /\ \E r \in 0 .. MaxRetries : BeginSend(GuiThread, r, packet_count)
    /\ UNCHANGED guiVars
    /\ UNCHANGED << cfgVars, fnVars >>

CallEnd ==
    /\ pc[GuiThread] \in {"sb_returned", "sb_raised"}
    /\ EndSend(GuiThread, "idle")
    /\ UNCHANGED guiVars
    /\ UNCHANGED << cfgVars, fnVars >>

InitCall == Init /\ autostart = FALSE /\ interval[1] = 1

NextCall == Call \/ CallEnd \/ SendBeaconStep(GuiThread)

SpecCall == InitCall /\ [][NextCall]_vars

\* One sender whose log function may raise (APRSSender takes any callable as
\* log_func): each self.log call of send_beacon either returns, as in
\* SendBeaconStep, or raises where it stands.
\* `self.log(f"APRS-IS: {logresp}")` raises: the try body is left.
SettleLogRaises(t) ==
    /\ ~exited /\ pc[t] = "settle"
    /\ Raise(t, "LogFailed")
    /\ UNCHANGED << attempt, retries, sock, sockAtt, openSocks, sess, recvs, tmp,
                    packet_count, guiVars, conns, silent, count0, successes,
                    cfgVars, callVars, fnVars >>

\* `self.packet_count += 1` stores, then `self.log(f"Sent: {packet}")` raises:
\* the try body is left after the beacon and the increment.
SentLogRaises(t) ==
    /\ ~exited /\ pc[t] = "inc_write"
    /\ packet_count' = Incremented(tmp[t])
    /\ tmp' = [tmp EXCEPT ![t] = 0]
    /\ Raise(t, "LogFailed")
    /\ UNCHANGED << attempt, retries, sock, sockAtt, openSocks, sess, recvs,
                    guiVars, conns, silent, count0, successes, cfgVars, callVars,
                    fnVars >>

\* `attempt += 1`, a retry remains, and `self.log(f"Send failed ...")` raises
\* inside the except clause: the new exception leaves send_beacon through the
\* finally clause.
RetryLogRaises(t) ==
    /\ ~exited /\ pc[t] = "except"
    /\ ~RetriesExhausted(attempt[t] + 1, retries[t])
    /\ attempt' = [attempt EXCEPT ![t] = @ + 1]
    /\ silent' = [silent EXCEPT ![t] = FALSE]
    /\ pc' = [pc EXCEPT ![t] = "fin_raise"]
    /\ err' = [err EXCEPT ![t] = "LogFailed"]
    /\ UNCHANGED << retries, sock, sockAtt, openSocks, sess, recvs, tmp,
                    packet_count, guiVars, conns, count0, successes, cfgVars,
                    callVars, fnVars >>

NextSink ==
    \/ NextCall
    \/ SettleLogRaises(GuiThread)
    \/ SentLogRaises(GuiThread)
    \/ RetryLogRaises(GuiThread)

SpecSink == InitCall /\ [][NextSink]_vars

\* One sender driven by a caller that passes any integer as retries, the
\* negative ones included, until MaxCount calls have returned.
CallAny ==
    /\ pc[GuiThread] = "idle"
    /\ successes < MaxCount
    /\ \E r \in (-1) .. MaxRetries : BeginSend(GuiThread, r, packet_count)
    /\ UNCHANGED guiVars
    /\ UNCHANGED << cfgVars, fnVars >>

NextArgs == CallAny \/ CallEnd \/ SendBeaconStep(GuiThread)

SpecArgs == InitCall /\ [][NextArgs]_vars

\* The scheduled beacon and the configuration window: the user may open the
\* window, save it or close it between any two steps of a beacon thread.  The
\* "Send Beacon" button is left alone here: its send runs on the GUI thread, so
\* no window callback can run until that send has ended.
NextCfg ==
    \/ OpenConfig
    \/ SaveConfig
    \/ CancelConfig
    \/ StartBeacon
    \/ OnCloseFlag
    \/ OnCloseDestroy
    \/ \E t \in BeaconThreads : SendBeaconStep(t)
    \/ \E t \in BeaconThreads : SendOnceOk(t)
    \/ \E t \in BeaconThreads : SendOnceErr(t)
    \/ \E t \in BeaconThreads : Dismiss(t)
    \/ \E t \in BeaconThreads : BeaconLoopTop(t)
    \/ \E t \in BeaconThreads : SendOnceBegin(t)
    \/ \E t \in BeaconThreads : IntervalSleep(t)

SpecCfg == Init /\ [][NextCfg]_vars

\* ------------------------------------------------------- text formatting
\* Text is a sequence of one-character strings.
DigitChars == << "0", "1", "2", "3", "4", "5", "6", "7", "8", "9" >>

\* The decimal digits of n >= 0, as str(n) gives them.
RECURSIVE Decimal(_)
Decimal(n) ==
    IF n < 10 THEN << DigitChars[n + 1] >>
    ELSE Decimal(n \div 10) \o << DigitChars[(n % 10) + 1] >>

\* Left padding with "0" up to width w (the `0w` of a format spec); text that
\* is already w wide or wider is left as it is.
ZeroPad(s, w) ==
    IF Len(s) >= w THEN s ELSE [i \in 1 .. (w - Len(s)) |-> "0"] \o s

\* f"{n:0wd}"
FormatInt(n, w) == ZeroPad(Decimal(n), w)

\* The minutes written with no zero padding, as f"{min_:.2f}" would.
FormatFixed2Unpadded(h, w) ==
    Decimal(h \div 100) \o << "." >> \o FormatInt(h % 100, 2)

\* f"{x:0w.2f}" for x >= 0, given h = x rounded to hundredths
FormatFixed2(h, w) ==
    ZeroPad(Decimal(h \div 100) \o << "." >> \o FormatInt(h % 100, 2), w)

\* ------------------------------------------ decimal_to_aprs_lat / _lon
\* A coordinate is an integer n standing for n / GridPerDeg degrees.
\* `min_ = (lat - deg) * 60` rounded to hundredths by the `.2f` format, for the
\* fraction f / GridPerDeg of a degree.  With GridPerDeg = 50000 no fraction
\* falls on a rounding tie, so the rounding mode does not matter.
MinutesHundredths(f) == (f * 12000 + GridPerDeg) \div (2 * GridPerDeg)

Abs(n) == IF n >= 0 THEN n ELSE 0 - n

\* decimal_to_aprs_lat(lat)
decimal_to_aprs_lat(n) ==
    LET direction == IF n >= 0 THEN "N" ELSE "S"
        deg == Abs(n) \div GridPerDeg
        f == Abs(n) % GridPerDeg
    IN  FormatInt(deg, 2) \o FormatFixed2(MinutesHundredths(f), 5)
            \o << direction >>

\* decimal_to_aprs_lon(lon)
decimal_to_aprs_lon(n) ==
    LET direction == IF n >= 0 THEN "E" ELSE "W"
        deg == Abs(n) \div GridPerDeg
        f == Abs(n) % GridPerDeg
    IN  FormatInt(deg, 3) \o FormatFixed2(MinutesHundredths(f), 5)
            \o << direction >>

\* The fractions of a degree tried: FracSteps evenly spaced ones, the smallest
\* and the largest of the grid (the largest rounds to 60.00 minutes), and the
\* ones next to a half.
Fractions ==
    {k * (GridPerDeg \div FracSteps) : k \in 0 .. (FracSteps - 1)}
        \cup {1, GridPerDeg \div 2 - 1, GridPerDeg \div 2 + 1, GridPerDeg - 1}

\* The coordinates of one axis within max hundredths of a degree either side.
Coordinates(max) ==
    {n \in {sg * (d * GridPerDeg + f) :
               sg \in {-1, 1}, d \in 0 .. (max \div 100), f \in Fractions} :
        Abs(n) * 100 <= max * GridPerDeg}

CoordInputs ==
    [axis : {"lat"}, x : Coordinates(MaxLatHundredths)]
        \cup [axis : {"lon"}, x : Coordinates(MaxLonHundredths)]

\* The conversion applied to the drawn coordinate.
Convert ==
    /\ input \in CoordInputs /\ output = "none"
    /\ output' = IF input.axis = "lat" THEN decimal_to_aprs_lat(input.x)
                                       ELSE decimal_to_aprs_lon(input.x)
    /\ UNCHANGED << input, progVars >>

InitCoord == InitProgram /\ autostart = FALSE /\ interval[1] = 1
                /\ input \in CoordInputs /\ output = "none"

SpecCoord == InitCoord /\ [][Convert]_vars

\* ------------------------------------------------------------ build_packet
\* The characters str.strip() removes, of those the model's text is made of.
Whitespace == {" ", "\n"}

\* str.strip(): the text from its first to its last non-whitespace character
Strip(s) ==
    LET keep == {i \in 1 .. Len(s) : s[i] \notin Whitespace}
    IN  IF keep = {} THEN << >>
        ELSE SubSeq(s, CHOOSE i \in keep : \A j \in keep : i <= j,
                       CHOOSE i \in keep : \A j \in keep : i >= j)

\* The grave accent (U+0060), written out because a TLA+ string cannot hold
\* that character.
Grave == "grave"

\* SYMBOL_MAP
SYMBOL_MAP ==
    ("Antenna" :> << "r" >>) @@ ("Ballon" :> << "O" >>) @@ ("Home" :> << "-" >>)
        @@ ("WX Station" :> << "_" >>) @@ ("Dish antenna" :> << Grave >>)

\* SYMBOL_LIST = list(SYMBOL_MAP.keys())
SYMBOL_LIST == DOMAIN SYMBOL_MAP

\* `SYMBOL_MAP.get(cfg["symbol"], "-")`
SymbolGet(label) ==
    IF label \in DOMAIN SYMBOL_MAP THEN SYMBOL_MAP[label] ELSE << "-" >>

\* The dash written whether or not there is an SSID.
SsidAlwaysDashed(ssid) == << "-" >> \o ssid

\* `ssid = f"-{cfg['ssid']}" if cfg["ssid"] else ""`
SsidPart(ssid) == IF ssid # << >> THEN << "-" >> \o ssid ELSE << >>

\* ">APU25N,TCPIP*:@", the literal part of build_packet's f-string
Header == << ">", "A", "P", "U", "2", "5", "N", ",", "T", "C", "P", "I", "P",
             "*", ":", "@" >>

\* `time.strftime("%H%M%Sz", time.gmtime())` at UTC time now
Timestamp(now) ==
    FormatInt(now.h, 2) \o FormatInt(now.m, 2) \o FormatInt(now.s, 2)
        \o << "z" >>

\* build_packet(cfg), called at UTC time now
build_packet(c, now) ==
    c.call \o SsidPart(c.ssid) \o Header \o Timestamp(now)
        \o decimal_to_aprs_lat(c.lat) \o << "/" >> \o decimal_to_aprs_lon(c.lon)
        \o SymbolGet(c.symbol) \o c.comment

\* All texts of at most n characters from the set chars.
TextsUpTo(chars, n) == UNION {[1 .. k -> chars] : k \in 0 .. n}

\* What the user may have in the configuration window when pressing Save, and
\* the time of the send that follows.  "Car" stands for a symbol label that is
\* not in SYMBOL_MAP (the combobox offers SYMBOL_LIST; config.ini may hold any).
PacketInputs ==
    [call    : {<< "9", "A", "4", "A", "M" >>, << "N", "0", "C", "A", "L", "L" >>},
     ssid    : {<< >>, << "9" >>, << "1", "5" >>},
     symbol  : SYMBOL_LIST \cup {"Car"},
     typed   : TextsUpTo({"a", " ", "\n"}, MaxLen),
     lat     : {45 * GridPerDeg + GridPerDeg \div 2, 0 - (33 * GridPerDeg + 1)},
     lon     : {16 * GridPerDeg + GridPerDeg \div 4},
     now     : {[h |-> 0, m |-> 5, s |-> 9], [h |-> 23, m |-> 59, s |-> 59]}]

\* The configuration dict the window has saved, given the comment it stored.
SavedCfg(entries, comment) ==
    [call |-> entries.call, ssid |-> entries.ssid, symbol |-> entries.symbol,
     lat |-> entries.lat, lon |-> entries.lon, comment |-> comment]

\* ConfigWindow.save as far as the packet is concerned: call and ssid are
\* taken from their entries as typed, the comment is the text widget's content
\* (which Tk ends with a newline) with str.strip() applied.
SaveEntries ==
    /\ input \in PacketInputs /\ output.stage = "typed"
    /\ output' = [output EXCEPT !.stage = "saved",
                                !.comment = Strip(input.typed \o << "\n" >>)]
    /\ UNCHANGED << input, progVars >>

\* send_beacon: `packet = build_packet(cfg)`, and what sendall is given:
\* `(packet + "\n")`
BuildAndWrite ==
    /\ input \in PacketInputs /\ output.stage = "saved"
    /\ LET packet == build_packet(SavedCfg(input, output.comment), input.now)
       IN  output' = [output EXCEPT !.stage = "written",
                                    !.packet = packet,
                                    !.wire = packet \o << "\n" >>]
    /\ UNCHANGED << input, progVars >>

InitPacket ==
    /\ InitProgram /\ autostart = FALSE /\ interval[1] = 1
    /\ input \in PacketInputs
    /\ output = [stage |-> "typed", comment |-> << >>, packet |-> << >>,
                 wire |-> << >>]

NextPacket == SaveEntries \/ BuildAndWrite

SpecPacket == InitPacket /\ [][NextPacket]_vars

\* -------------------------------------------------------- wait_for_logresp
\* "logresp"
Token == << "l", "o", "g", "r", "e", "s", "p" >>

\* The same token as a server may capitalise it.
TokenUpper == << "L", "O", "G", "R", "E", "S", "P" >>

\* str.lower() on one character of the model's text
LowerChar(c) ==
    IF \E i \in 1 .. Len(TokenUpper) : TokenUpper[i] = c
      THEN Token[CHOOSE i \in 1 .. Len(TokenUpper) : TokenUpper[i] = c]
      ELSE c

\* str.lower()
Lower(s) == [i \in 1 .. Len(s) |-> LowerChar(s[i])]

\* `t in s` for two texts
Contains(s, t) ==
    \E i \in 0 .. (Len(s) - Len(t)) : SubSeq(s, i + 1, i + Len(t)) = t

\* str.splitlines() for text whose only line boundary is "\n": the lines in
\* order, without their terminators, with no empty last line.
RECURSIVE SplitLines(_)
SplitLines(s) ==
    IF s = << >> THEN << >>
    ELSE IF \E i \in 1 .. Len(s) : s[i] = "\n"
      THEN LET nl == CHOOSE i \in 1 .. Len(s) :
                        s[i] = "\n" /\ \A j \in 1 .. (i - 1) : s[j] # "\n"
           IN  << SubSeq(s, 1, nl - 1) >> \o SplitLines(SubSeq(s, nl + 1, Len(s)))
      ELSE << s >>

\* The body of wait_for_logresp's loop for one chunk: `for line in
\* text.splitlines(): if "logresp" in line.lower(): return line.strip()`.
\* The line returned, or "more" when no line of the chunk has the token.
ScanChunk(text) ==
    LET lines == SplitLines(text)
        hits == {i \in 1 .. Len(lines) : Contains(Lower(lines[i]), Token)}
    IN  IF hits = {} THEN "more"
        ELSE Strip(lines[CHOOSE i \in hits : \A j \in hits : i <= j])

\* The concatenation of a sequence of texts.
RECURSIVE Concat(_)
Concat(ps) == IF ps = << >> THEN << >> ELSE Head(ps) \o Concat(Tail(ps))

\* What the server sends after the login, within the wait window: up to
\* MaxPieces pieces, each the token, the capitalised token, a newline, a
\* space or a "#".
Streams ==
    {Concat(ps) :
        ps \in UNION {[1 .. k -> {Token, TokenUpper, << "\n" >>, << " " >>,
                                  << "#" >>}] : k \in 1 .. MaxPieces}}

\* The chunks successive recv calls return when the stream is cut after the
\* positions in cuts.
RECURSIVE Chunks(_, _)
Chunks(s, cuts) ==
    IF cuts = {} THEN << s >>
    ELSE LET c == CHOOSE i \in cuts : \A j \in cuts : i <= j
         IN  << SubSeq(s, 1, c) >>
                 \o Chunks(SubSeq(s, c + 1, Len(s)), {j - c : j \in cuts \ {c}})

\* A stream and one way TCP may deliver it: at most MaxCuts boundaries.
WaitInputs ==
    UNION {[stream : {s},
            cuts : {c \in SUBSET (1 .. (Len(s) - 1)) : Cardinality(c) <= MaxCuts}]
              : s \in Streams}

\* One pass of the loop with data: `data = sock.recv(1024)`, decode, scan.
RecvChunk ==
    /\ input \in WaitInputs /\ output.result = "pending"
    /\ LET chunks == Chunks(input.stream, input.cuts)
       IN  /\ output.read < Len(chunks)
           /\ LET found == ScanChunk(chunks[output.read + 1])
              IN  output' =
                    IF found = "more"
                      THEN [output EXCEPT !.read = @ + 1]
                      ELSE [read |-> output.read + 1, result |-> "line",
                            line |-> found]
    /\ UNCHANGED << input, progVars >>

\* The stream is used up: recv returns b"" (`break`, `return None`), or it
\* raises socket.timeout, or the window ends (`return None`).
RecvNothing ==
    /\ input \in WaitInputs /\ output.result = "pending"
    /\ output.read = Len(Chunks(input.stream, input.cuts))
    /\ \E r \in {"None", "Timeout"} : output' = [output EXCEPT !.result = r]
    /\ UNCHANGED << input, progVars >>

InitWait ==
    /\ InitProgram /\ autostart = FALSE /\ interval[1] = 1
    /\ input \in WaitInputs
    /\ output = [read |-> 0, result |-> "pending", line |-> << >>]

NextWait == RecvChunk \/ RecvNothing

SpecWait == InitWait /\ [][NextWait]_vars

\* ------------------------------------------------------------------ claims
Range(q) == {q[i] : i \in 1 .. Len(q)}

IsPrefix(p, q) == Len(p) <= Len(q) /\ \A i \in 1 .. Len(p) : p[i] = q[i]

\* C1: a send_beacon(cfg, retries=r) call, r >= 0, that ends by raising has made
\* exactly r + 1 connection attempts, and a call returns success only from an
\* attempt that received a logresp line; so a call in which no attempt receives
\* one makes r + 1 attempts and raises.  (Checked for r in 0 .. MaxRetries.)
C1_AttemptsThenError ==
    \A t \in Threads :
        /\ InSendBeacon(t) => conns[t] <= retries[t] + 1
        /\ pc[t] = "sb_raised" => conns[t] = retries[t] + 1
        /\ pc[t] = "sb_returned" => "ack" \in Range(sess[t])

C1_Witness ==
    /\ pc[GuiThread] = "sb_raised"
    /\ retries[GuiThread] = 2
    /\ conns[GuiThread] = 3
    /\ silent[GuiThread]

\* C2: over a sequence of send_beacon calls on one sender, packet_count never
\* decreases, is one more than at the call's start when the call returns, and
\* is what it was at the call's start when the call raises; between calls it
\* equals the number of calls that returned.
C2_CounterCountsSuccesses ==
    /\ [](\A t \in Threads :
            /\ pc[t] = "sb_returned" => packet_count = count0[t] + 1
            /\ pc[t] = "sb_raised" => packet_count = count0[t]
            /\ pc[t] = "idle" => packet_count = successes)
    /\ [][packet_count' >= packet_count]_vars

C2_Witness ==
    /\ pc[GuiThread] = "sb_returned"
    /\ attempt[GuiThread] > 0
    /\ count0[GuiThread] = 1
    /\ packet_count = 2

\* C3: at most one send_beacon invocation is in progress at any time.
C3_OneSendAtATime == Cardinality({t \in Threads : InSendBeacon(t)}) <= 1

\* C4: whenever no send_beacon invocation is in progress, packet_count equals
\* the number of send_beacon calls that have returned success.
C4_NoLostUpdate ==
    (\A t \in Threads : ~InSendBeacon(t)) => packet_count = successes

\* C5: an invocation holds at most one open socket; the statements of the try
\* body run on a socket created in the current attempt; none is open when the
\* next attempt is about to connect, nor once send_beacon has returned or raised.
C5_SocketsClosed ==
    \A t \in Threads :
        /\ openSocks[t] <= 1
        /\ pc[t] \in BodyPCs => sock[t] = "open" /\ sockAtt[t] = attempt[t]
        /\ pc[t] \in {"sb_while", "connect"} => openSocks[t] = 0
        /\ ~InSendBeacon(t) => openSocks[t] = 0

C5_Witness ==
    \E t \in Threads :
        /\ pc[t] = "sb_while"
        /\ attempt[t] = 1
        /\ sock[t] = "closed"
        /\ "login" \in Range(sess[t])

\* C6: what happens on an attempt's connection is, in this order, connect,
\* login, logresp received, settle delay, beacon written, with close last: the
\* beacon is written only after the logresp of that attempt and the delay.
SessionOrder == << "connect", "login", "ack", "settle", "beacon" >>

Unclosed(q) == IF Len(q) > 0 /\ q[Len(q)] = "close" THEN SubSeq(q, 1, Len(q) - 1) ELSE q

C6_SessionOrder == \A t \in Threads : IsPrefix(Unclosed(sess[t]), SessionOrder)

C6_Witness ==
    \E t \in Threads :
        sess[t] = << "connect", "login", "ack", "settle", "beacon", "close" >>

\* C7: a call whose attempts all ended in wait_for_logresp without a logresp
\* line raises the "No logresp" error.
C7_NoLogrespError ==
    \A t \in Threads :
        (pc[t] = "sb_raised" /\ silent[t]) => err[t] = "NoLogresp"

\* C8: once running is False it stays False; a beacon_loop thread that is at the
\* top of its loop then only ends, one in the middle of a cycle (from the loop
\* test it passed to the end of the interval sleep) is not ended by the flag,
\* and once every loop thread is at the top of its loop or finished,
\* packet_count no longer changes.
C8_StopHonoured ==
    [][ ~running =>
          /\ ~running'
          /\ \A t \in BeaconThreads :
                /\ pc[t] \in {"loop_top", "done"} => pc'[t] \in {pc[t], "done"}
                /\ pc[t] \notin {"loop_top", "done"} => pc'[t] # "done"
          /\ (\A t \in BeaconThreads :
                 pc[t] \in {"unborn", "loop_top", "done", "died"})
                => packet_count' = packet_count ]_vars

C8_Witness ==
    /\ ~running
    /\ packet_count > 0
    /\ \E t \in BeaconThreads : pc[t] = "done"

\* C9: a scheduled send that raised while the scheduler is not stopped is
\* followed, by the loop thread's own steps, by the interval sleep.
C9_LoopGoesOn ==
    \A t \in BeaconThreads :
        (pc[t] = "sb_raised" /\ running)
            ~> (pc[t] = "interval_sleep" \/ ~running \/ exited)

\* C10: however often start_beacon is called, at most one beacon_loop thread
\* is alive, so at most one scheduler-initiated send_beacon is in progress.
C10_OneLoopThread ==
    /\ Cardinality({t \in BeaconThreads : Alive(t)}) <= 1
    /\ Cardinality({t \in BeaconThreads : InSendBeacon(t)}) <= 1

C10_Witness ==
    /\ starts = 2
    /\ beacon_thread = 1
    /\ InSendBeacon(1)
    /\ pc[2] = "unborn"

\* C11: a configuration saved while a scheduled send is in flight does not
\* reach that send: everything the invocation reads from its cfg argument
\* (server and port, the login line, the packet) is what the dict held when the
\* invocation began; and each loop iteration begins with what APRSGUI.cfg
\* holds at that moment, so the iteration after a save uses the new contents.
C11_ConfigCaptured ==
    /\ [](\A t \in Threads :
            (InSendBeacon(t) \/ pc[t] \in {"sb_returned", "sb_raised"})
                => cfgSeen[t] = cfg0[t])
    /\ [][\A t \in BeaconThreads :
            (pc[t] = "send_once" /\ pc'[t] = "sb_while")
                => (cfgArg'[t] = cfg /\ cfg0'[t] = heap[cfg])]_vars

\* A send that has connected, logged in and written its beacon from the old
\* contents although APRSGUI.cfg was replaced by edited contents meanwhile.
C11_Witness ==
    \E t \in BeaconThreads :
        /\ pc[t] = "inc_read"
        /\ cfgArg[t] # cfg
        /\ heap[cfg] # cfg0[t]
        /\ cfgSeen[t] = cfg0[t]

\* The lines of kind k carrying attempt number a that t's invocation logged.
LinesOf(t, k, a) ==
    Cardinality({i \in 1 .. Len(logged[t]) : logged[t][i] = LogLine(k, a)})

\* C12: every send_beacon call reports its outcome in the log: a call that
\* returned logged exactly one "Sent" line, each failed attempt that was
\* followed by a retry logged exactly one "Send failed" line with its attempt
\* number, and a call that raised after its last attempt logged a line for that
\* final failure.
C12_OutcomeLogged ==
    \A t \in Threads :
        /\ pc[t] = "sb_returned" =>
              Cardinality({i \in 1 .. Len(logged[t]) :
                              logged[t][i].kind = "Sent"}) = 1
        /\ (InSendBeacon(t) \/ pc[t] \in {"sb_returned", "sb_raised"}) =>
              \A a \in 1 .. attempt[t] :
                  a <= retries[t] => LinesOf(t, "Send failed", a) = 1
        /\ pc[t] = "sb_raised" =>
              \E i \in 1 .. Len(logged[t]) : logged[t][i].attempt = attempt[t]

\* C16: when an attempt has failed and a retry remains, the attempt's socket
\* is closed before the retry delay begins: no invocation waits out
\* time.sleep(retry_delay) with a socket still open.
C16_ClosedBeforeDelay ==
    \A t \in Threads :
        pc[t] = "retry_sleep" => (sock[t] # "open" /\ openSocks[t] = 0)

\* C18: one send_beacon invocation writes at most one beacon packet and adds
\* at most one to packet_count, also when the log function raises on the
\* "Sent" line.
C18_AtMostOneBeacon ==
    \A t \in Threads :
        (InSendBeacon(t) \/ pc[t] \in {"sb_returned", "sb_raised"}) =>
            /\ beacons[t] <= 1
            /\ packet_count <= count0[t] + 1

\* C19: send_beacon returns normally only after a connection attempt, with a
\* beacon written on a connection whose login was acknowledged and with
\* packet_count incremented, whatever integer retries is.
C19_SuccessMeansSent ==
    \A t \in Threads :
        pc[t] = "sb_returned" =>
            /\ conns[t] >= 1
            /\ beacons[t] >= 1
            /\ \E i \in 1 .. Len(sess[t]) : sess[t][i] = "ack"
            /\ packet_count = count0[t] + 1

\* The number a run of digit characters reads as.
RECURSIVE ParseNat(_)
ParseNat(s) ==
    IF s = << >> THEN 0
    ELSE LET c == s[Len(s)]
             v == CHOOSE d \in 0 .. 9 : DigitChars[d + 1] = c
         IN  ParseNat(SubSeq(s, 1, Len(s) - 1)) * 10 + v

\* C14: on the grid, a latitude within 89.99 degrees converts to exactly 8
\* characters and a longitude within 179.99 degrees to exactly 9 (also where
\* the minutes round to 60.00); the text reads back (degree digits, "mm.mm"
\* minutes, hemisphere letter) as the same whole degrees, minutes within one
\* minute (1/60 degree) of the input's, on the input's side of zero.
C14_CoordinateWidth ==
    (input \in CoordInputs /\ output # "none") =>
        LET dw == IF input.axis = "lat" THEN 2 ELSE 3
            a == Abs(input.x)
        IN  /\ Len(output) = dw + 6
            /\ \A i \in 1 .. Len(output) :
                   i \notin {dw + 3, dw + 6} => output[i] \in Range(DigitChars)
            /\ output[dw + 3] = "."
            /\ output[dw + 6] \in (IF input.axis = "lat" THEN {"N", "S"}
                                                         ELSE {"E", "W"})
            /\ (output[dw + 6] \in {"N", "E"}) <=> (input.x >= 0)
            /\ ParseNat(SubSeq(output, 1, dw)) = a \div GridPerDeg
            /\ LET h == ParseNat(SubSeq(output, dw + 1, dw + 2)) * 100
                          + ParseNat(SubSeq(output, dw + 4, dw + 5))
                   d == h * GridPerDeg - (a % GridPerDeg) * 6000
               IN  Abs(d) <= 100 * GridPerDeg

\* A latitude whose minutes came out as 60.00, and it is 8 characters long.
C14_Witness ==
    /\ input \in CoordInputs /\ output # "none"
    /\ input.axis = "lat"
    /\ Len(output) = 8
    /\ SubSeq(output, 3, 7) = << "6", "0", ".", "0", "0" >>

\* C13: the beacon written to the socket is a single line: whatever comment
\* the configuration window saved, the text handed to sendall holds exactly
\* one line terminator, its last character, and build_packet's result holds
\* none.
C13_SingleLine ==
    (input \in PacketInputs /\ output.stage = "written") =>
        /\ \A i \in 1 .. Len(output.packet) : output.packet[i] # "\n"
        /\ Cardinality({i \in 1 .. Len(output.wire) :
                           output.wire[i] = "\n"}) = 1
        /\ output.wire[Len(output.wire)] = "\n"

\* C15: the packet begins with the callsign, then "-" and the SSID when the
\* SSID is not empty and nothing when it is, then ">APU25N,TCPIP*:@"; after
\* the 7-character time, the 8-character latitude, "/" and the 9-character
\* longitude stands the symbol: one character, "r", "O", "-", "_" or grave for
\* the five labels (each its own), and "-" for any other label.
C15_IdentityAndSymbol ==
    (input \in PacketInputs /\ output.stage = "written") =>
        LET p == output.packet
            k == Len(input.call)
            n == Len(input.ssid)
            h == IF n = 0 THEN k ELSE k + 1 + n
            at == h + Len(Header) + 7 + 8 + 1 + 9 + 1
        IN  /\ SubSeq(p, 1, k) = input.call
            /\ n > 0 => (p[k + 1] = "-" /\ SubSeq(p, k + 2, k + 1 + n) = input.ssid)
            /\ SubSeq(p, h + 1, h + Len(Header)) = Header
            /\ p[at] = CASE input.symbol = "Antenna"      -> "r"
                         [] input.symbol = "Ballon"       -> "O"
                         [] input.symbol = "Home"         -> "-"
                         [] input.symbol = "WX Station"   -> "_"
                         [] input.symbol = "Dish antenna" -> Grave
                         [] OTHER                         -> "-"
            /\ Len(p) = at + Len(output.comment)
            /\ \A a, b \in SYMBOL_LIST :
                   /\ Len(SymbolGet(a)) = 1
                   /\ a # b => SymbolGet(a) # SymbolGet(b)

\* A packet built for an empty SSID and a label SYMBOL_MAP does not hold.
C15_Witness ==
    /\ input \in PacketInputs /\ output.stage = "written"
    /\ input.ssid = << >>
    /\ input.symbol \notin SYMBOL_LIST

\* C17: the acknowledgement is found however TCP cuts the stream into recv
\* chunks: when the bytes received hold a line containing "logresp" (in any
\* case), wait_for_logresp returns a line, also when a chunk boundary falls
\* inside the token or inside that line.
C17_ChunkingIndependent ==
    (input \in WaitInputs /\ output.result # "pending") =>
        (Contains(Lower(input.stream), Token) => output.result = "line")

====
